---- MODULE Spec2Model ----
(***************************************************************************)
(* A model of target_bigquery.py: the message loop and the end-of-run loop *)
(* of persist_lines_job (batch mode) and persist_lines_stream (streaming   *)
(* mode), and main's final emit_state.                                     *)
(*                                                                         *)
(* The warehouse client is an external collaborator: every call to it is   *)
(* appended to `calls` with the outcome the warehouse chose.  A call that  *)
(* raises anything the code does not catch ends the run (pc = "aborted").  *)
(* The options truncate, allow_schema_update and ignore_unknown_fields     *)
(* only decorate the load job configuration and key_properties is written  *)
(* but never read; they are not part of the state.                         *)
(***************************************************************************)
EXTENDS Integers, Sequences, FiniteSets, TLC

\* The number of input lines read from stdin in one run.
MaxMsgs == 4

Streams == {"s1", "s2"}
Records == {"r1", "r2"}
\* the value of a STATE message; a JSON null arrives as None
StateValues == {"v1", "v2", "None"}
\* docA: accepts every record; docB: accepts r1 only; docX: a schema with no
\* "properties" key: it accepts every record and build_schema raises on it.
SchemaDocs == {"docA", "docB", "docX"}

None == "None"
EmptyList == "[]"
RowErrors == "[row errors]"

EmptyDict == [k \in {} |-> None]

SetKey(d, k, v) == [x \in (DOMAIN d) \cup {k} |-> IF x = k THEN v ELSE d[x]]

Falsy(x) == x = None \/ x = EmptyList

NoMsg == [type |-> None, stream |-> None, record |-> None, value |-> None, schema |-> None]

RecordMessage(s, r) == [NoMsg EXCEPT !.type = "RECORD", !.stream = s, !.record = r]

StateMessage(v) == [NoMsg EXCEPT !.type = "STATE", !.value = v]

SchemaMessage(s, d) == [NoMsg EXCEPT !.type = "SCHEMA", !.stream = s, !.schema = d]

ActivateVersionMessage == [NoMsg EXCEPT !.type = "ACTIVATE_VERSION"]

\* parse_message returned something that is none of the four message classes
UnrecognizedMessage == [NoMsg EXCEPT !.type = "OTHER"]

\* parse_message raised on the line
UnparseableLine == [NoMsg EXCEPT !.type = "UNPARSEABLE"]

\* jsonschema.validate(record, schema): TRUE when it returns, FALSE when it raises
validate(record, schema) ==
    CASE schema = "docA" -> TRUE
      [] schema = "docB" -> record = "r1"
      [] OTHER -> TRUE

(***************************************************************************)
(* JSON-Schema fragments and their translation (define_schema,             *)
(* build_schema).  A fragment is a dict: `keys` holds the keys it has, and *)
(* the other fields their values (a filler when the key is absent).  A     *)
(* "type" is a string or a list of strings; "properties" is an ordered     *)
(* mapping, kept as a sequence of <<key, fragment>>; "items" is kept as a  *)
(* sequence of no or one fragment.                                         *)
(***************************************************************************)
Scalar(t) == [list |-> FALSE, of |-> <<t>>]

TypeList(ts) == [list |-> TRUE, of |-> ts]

EmptyFragment ==
    [keys |-> {}, type |-> Scalar(None), anyOf |-> <<>>, properties |-> <<>>,
     items |-> <<>>, format |-> None]

WithType(ty) == [EmptyFragment EXCEPT !.keys = {"type"}, !.type = ty]

WithFormat(f, fmt) == [f EXCEPT !.keys = @ \cup {"format"}, !.format = fmt]

WithAnyOf(alts) == [EmptyFragment EXCEPT !.keys = {"anyOf"}, !.anyOf = alts]

WithProperties(f, props) == [f EXCEPT !.keys = @ \cup {"properties"}, !.properties = props]

WithItems(f, item) == [f EXCEPT !.keys = @ \cup {"items"}, !.items = <<item>>]

\* "key" in field
Has(field, key) == key \in field.keys

\* schema_type == name, for a schema_type that may be a string or a list
Is(schema_type, name) == ~schema_type.list /\ schema_type.of[1] = name

\* what define_schema returns: (name, type, mode, description, fields), or the
\* exception it raises
Column(name, ty, mode, fields) ==
    [error |-> None, name |-> name, type |-> ty, mode |-> mode,
     description |-> None, fields |-> fields]

Raised(exc) ==
    [error |-> exc, name |-> None, type |-> Scalar(None), mode |-> None,
     description |-> None, fields |-> <<>>]

\* not bool(schema["properties"][key]): an empty dict
empty_record_never(field) == FALSE

empty_record(field) == field.keys = {}

RECURSIVE any_of(_, _)
\* the loop over field["anyOf"]: every alternative that is not "null" replaces
\* field; an alternative without "type" raises
any_of(field, alternatives) ==
    IF alternatives = <<>>
      THEN field
      ELSE LET types == Head(alternatives) IN
             IF ~Has(types, "type")
               THEN WithFormat(EmptyFragment, "KeyError")
               ELSE IF Is(types.type, "null")
                      THEN any_of(field, Tail(alternatives))
                      ELSE any_of(types, Tail(alternatives))

\* string with format date-time becomes timestamp, number becomes FLOAT
scalar_type(field, schema_type) ==
    IF Is(schema_type, "string") /\ Has(field, "format") /\ field.format = "date-time"
      THEN Scalar("timestamp")
      ELSE IF Is(schema_type, "number") THEN Scalar("FLOAT") ELSE schema_type

RECURSIVE define_schema(_, _)
RECURSIVE build_schema(_)
RECURSIVE build_fields(_, _)

define_schema(field0, name) ==
    LET selected == IF ~Has(field0, "type") /\ Has(field0, "anyOf")
                      THEN any_of(field0, field0.anyOf)
                      ELSE field0
    IN
    IF ~Has(selected, "type")
      THEN Raised("KeyError")
      ELSE
    LET field == selected
        is_list == field.type.list
    IN
    IF is_list /\ field.type.of = <<>>
      THEN Raised("IndexError")
      ELSE
    LET mode1 == IF is_list
                   THEN (IF field.type.of[1] = "null" THEN "NULLABLE" ELSE "required")
                   ELSE "NULLABLE"
        type1 == IF is_list THEN Scalar(field.type.of[Len(field.type.of)]) ELSE field.type
    IN
    IF Is(type1, "object")
      THEN LET nested == build_schema(field) IN
             IF nested.error # None
               THEN Raised(nested.error)
               ELSE Column(name, Scalar("RECORD"), mode1, nested.fields)
      ELSE IF Is(type1, "array")
        THEN IF ~Has(field, "items")
               THEN Raised("AttributeError")
               ELSE LET items == field.items[1]
                        type2 == IF Has(items, "type") THEN items.type ELSE Scalar(None)
                    IN  IF Is(type2, "object")
                          THEN LET nested == build_schema(items) IN
                                 IF nested.error # None
                                   THEN Raised(nested.error)
                                   ELSE Column(name, Scalar("RECORD"), "REPEATED", nested.fields)
                          ELSE Column(name, scalar_type(field, type2), "REPEATED", <<>>)
        ELSE Column(name, scalar_type(field, type1), mode1, <<>>)

\* the loop over schema["properties"].keys(), from the first of `properties` on
build_fields(properties, output_schema) ==
    IF properties = <<>>
      THEN [error |-> None, fields |-> output_schema]
      ELSE LET key == Head(properties)[1]
               field == Head(properties)[2]
           IN  IF empty_record(field)
                 THEN build_fields(Tail(properties), output_schema)
                 ELSE LET column == define_schema(field, key) IN
                        IF column.error # None
                          THEN [error |-> column.error, fields |-> <<>>]
                          ELSE build_fields(Tail(properties), Append(output_schema, column))

build_schema(schema) ==
    IF ~Has(schema, "properties")
      THEN [error |-> "KeyError", fields |-> <<>>]
      ELSE build_fields(schema.properties, <<>>)

\* the schema documents of the SCHEMA messages
Document(doc) ==
    CASE doc = "docA" ->
           WithProperties(WithType(Scalar("object")),
               << <<"id", WithType(Scalar("integer"))>>,
                  <<"at", WithFormat(WithType(TypeList(<<"null", "string">>)), "date-time")>> >>)
      [] doc = "docB" ->
           WithProperties(WithType(Scalar("object")),
               << <<"id", WithType(Scalar("integer"))>> >>)
      [] OTHER -> WithType(Scalar("object"))

\* build_schema returns for the document: it raises KeyError on a schema
\* document without "properties"
Translatable(schema) == build_schema(Document(schema)).error = None

\* the column schema handed to the warehouse for a schema document
columns(schema) == build_schema(Document(schema)).fields

json_dumps(x) == <<"json", x>>

VARIABLES stream_data, validate_records, autodetect_schema,
          pc, raised, state, schemas, rows, tables, errors, keys, idx,
          stdout, calls, lines,
          fragment, translated

\* the configuration, and the argument and result of a translation on its own:
\* no step of a run changes them
config == <<stream_data, validate_records, autodetect_schema, fragment, translated>>

engine == <<state, schemas, rows, tables, errors, keys>>

vars == <<stream_data, validate_records, autodetect_schema, pc, raised, state,
          schemas, rows, tables, errors, keys, idx, stdout, calls, lines,
          fragment, translated>>

NotTranslated == Raised("not called")

Call(op, s, data, schema, outcome) ==
    [op |-> op, stream |-> s, data |-> data, schema |-> schema, outcome |-> outcome]

\* emit_state without its test for None
emit_state_unchecked(out, st) == Append(out, json_dumps(st))

emit_state(out, st) == IF st # None THEN Append(out, json_dumps(st)) ELSE out

Raise(exc) == pc' = "aborted" /\ raised' = exc

Init ==
    /\ stream_data \in BOOLEAN
    /\ validate_records \in BOOLEAN
    /\ autodetect_schema \in (IF stream_data THEN {FALSE} ELSE BOOLEAN)
    /\ pc = "main"
    /\ raised = None
    /\ state = None
    /\ schemas = EmptyDict
    /\ rows = EmptyDict
    /\ tables = EmptyDict
    /\ errors = EmptyDict
    /\ keys = <<>>
    /\ idx = 0
    /\ stdout = <<>>
    /\ calls = <<>>
    /\ lines = <<>>
    /\ fragment = EmptyFragment
    /\ translated = NotTranslated

\* main picks the strategy; the batch strategy goes straight to its message loop
main_job ==
    /\ pc = "main"
    /\ ~stream_data
    /\ pc' = "read"
    /\ UNCHANGED <<config, raised, engine, idx, stdout, calls, lines>>

\* the streaming strategy creates the dataset before it reads any line
stream_create_dataset ==
    /\ pc = "main"
    /\ stream_data
    /\ \E outcome \in {"ok", "Conflict", "error"} :
        /\ calls' = Append(calls, Call("create_dataset", None, <<>>, None, outcome))
        /\ IF outcome = "error"
             THEN Raise("WarehouseError")
             ELSE pc' = "read" /\ UNCHANGED raised
    /\ UNCHANGED <<config, engine, idx, stdout, lines>>

Reading == pc = "read" /\ Len(lines) < MaxMsgs

\* The code treats stream names alike, so the inputs name their streams in the
\* order s1, s2: a line may name s2 only after an earlier line has named s1.
Named == {lines[n].stream : n \in 1..Len(lines)} \ {None}

NextStreams == IF "s1" \in Named THEN Streams ELSE {"s1"}

\* parse_message raises: logged and re-raised (both strategies)
ParseError ==
    /\ Reading
    /\ lines' = Append(lines, UnparseableLine)
    /\ Raise("JSONDecodeError")
    /\ UNCHANGED <<config, engine, idx, stdout, calls>>

\* the final else branch of the dispatch (both strategies)
Unrecognized ==
    /\ Reading
    /\ lines' = Append(lines, UnrecognizedMessage)
    /\ Raise("Unrecognized message")
    /\ UNCHANGED <<config, engine, idx, stdout, calls>>

\* the message drops the pending checkpoint, as a RECORD does
ActivateVersion_resets ==
    /\ Reading
    /\ lines' = Append(lines, ActivateVersionMessage)
    /\ state' = None
    /\ UNCHANGED <<config, pc, raised, schemas, rows, tables, errors, keys, idx, stdout, calls>>

ActivateVersion ==
    /\ Reading
    /\ lines' = Append(lines, ActivateVersionMessage)
    /\ UNCHANGED <<config, pc, raised, engine, idx, stdout, calls>>

\* the STATE message is read and the pending checkpoint stays as it was
State_keeps_pending ==
    /\ Reading
    /\ \E v \in StateValues :
        /\ lines' = Append(lines, StateMessage(v))
    /\ UNCHANGED <<config, pc, raised, engine, idx, stdout, calls>>

\* the checkpoint is written out as soon as its STATE message is read
State_emits ==
    /\ Reading
    /\ \E v \in StateValues :
        /\ lines' = Append(lines, StateMessage(v))
        /\ state' = v
        /\ stdout' = emit_state(stdout, v)
    /\ UNCHANGED <<config, pc, raised, schemas, rows, tables, errors, keys, idx, calls>>

State ==
    /\ Reading
    /\ \E v \in StateValues :
        /\ lines' = Append(lines, StateMessage(v))
        /\ state' = v
    /\ UNCHANGED <<config, pc, raised, schemas, rows, tables, errors, keys, idx, stdout, calls>>

\* the record of an unknown stream is dropped and the loop goes on
record_before_schema_ignored == UNCHANGED <<pc, raised>>

\* a RECORD for a stream that is not in schemas
record_before_schema == Raise("record before schema")

\* the invalid record is skipped and the loop goes on
validation_failed_skipped == UNCHANGED <<pc, raised>>

\* validate(msg.record, schema) raises and nothing catches it
validation_failed == Raise("ValidationError")

\* the record is accepted: one line more in the stream's spool, and the pending
\* checkpoint is dropped
job_write(s, r) ==
    /\ rows' = [rows EXCEPT ![s] = Append(@, json_dumps(r))]
    /\ state' = None
    /\ UNCHANGED <<pc, raised>>

job_Record ==
    /\ Reading
    /\ ~stream_data
    /\ \E s \in NextStreams, r \in Records :
        /\ lines' = Append(lines, RecordMessage(s, r))
        /\ IF s \notin DOMAIN schemas
             THEN record_before_schema /\ UNCHANGED <<rows, state>>
             ELSE IF validate_records /\ ~validate(r, schemas[s])
                    THEN validation_failed /\ UNCHANGED <<rows, state>>
                    ELSE job_write(s, r)
    /\ UNCHANGED <<config, schemas, tables, errors, keys, idx, stdout, calls>>

job_Schema ==
    /\ Reading
    /\ ~stream_data
    /\ \E s \in NextStreams, d \in SchemaDocs :
        /\ lines' = Append(lines, SchemaMessage(s, d))
        /\ schemas' = SetKey(schemas, s, d)
        /\ rows' = SetKey(rows, s, <<>>)
        /\ errors' = SetKey(errors, s, None)
        /\ keys' = IF s \in DOMAIN rows THEN keys ELSE Append(keys, s)
    /\ UNCHANGED <<config, pc, raised, state, tables, idx, stdout, calls>>

\* the input is exhausted: the for loop over the lines ends
EndOfInput ==
    /\ pc = "read"
    /\ pc' = "end_loop"
    /\ idx' = 1
    /\ UNCHANGED <<config, raised, engine, stdout, calls, lines>>

\* the test for an empty tmp file is missing
nothing_to_upload_never(table) == FALSE

\* the tmp file is empty, so nothing to upload
nothing_to_upload(table) == rows[table] = <<>>

\* the spool is read from where the last write left it: the seek(0) is missing
load_without_seek(table, outcome) ==
    Call("load", table, <<>>,
         IF autodetect_schema THEN "autodetect" ELSE columns(schemas[table]),
         outcome)

\* seek(0), then load_table_from_file reads the whole spool
load_table_from_file(table, outcome) ==
    Call("load", table, rows[table],
         IF autodetect_schema THEN "autodetect" ELSE columns(schemas[table]),
         outcome)

\* one iteration of the loop over rows.keys()
job_Load ==
    /\ pc = "end_loop"
    /\ ~stream_data
    /\ idx <= Len(keys)
    /\ LET table == keys[idx] IN
        IF nothing_to_upload(table)
          THEN idx' = idx + 1 /\ UNCHANGED <<pc, raised, calls>>
          ELSE IF ~autodetect_schema /\ ~Translatable(schemas[table])
                 THEN Raise("KeyError") /\ UNCHANGED <<idx, calls>>
                 ELSE \E outcome \in {"DONE", "failed"} :
                        /\ calls' = Append(calls, load_table_from_file(table, outcome))
                        /\ IF outcome = "failed"
                             THEN Raise("load job failed") /\ UNCHANGED idx
                             ELSE idx' = idx + 1 /\ UNCHANGED <<pc, raised>>
    /\ UNCHANGED <<config, engine, stdout, lines>>

\* the table object kept after a conflict carries no schema
Table_without_schema(s, schema, origin) ==
    [table |-> s, schema |-> IF origin = "local" THEN <<>> ELSE columns(schema), origin |-> origin]

\* the table object the streaming strategy keeps for a stream
Table(s, schema, origin) == [table |-> s, schema |-> columns(schema), origin |-> origin]

\* a non-empty error list from insert_rows_json ends the run
stream_inserted_aborts(s, outcome) ==
    /\ errors' = [errors EXCEPT ![s] = outcome]
    /\ rows' = [rows EXCEPT ![s] = @ + 1]
    /\ state' = None
    /\ IF outcome = RowErrors THEN Raise("row errors") ELSE UNCHANGED <<pc, raised>>

\* the insert leaves the pending checkpoint in place
stream_inserted_keeps_state(s, outcome) ==
    /\ errors' = [errors EXCEPT ![s] = outcome]
    /\ rows' = [rows EXCEPT ![s] = @ + 1]
    /\ UNCHANGED <<state, pc, raised>>

\* insert_rows_json returned: its error list is kept for the stream, the row is
\* counted and the pending checkpoint is dropped
stream_inserted(s, outcome) ==
    /\ errors' = [errors EXCEPT ![s] = outcome]
    /\ rows' = [rows EXCEPT ![s] = @ + 1]
    /\ state' = None
    /\ UNCHANGED <<pc, raised>>

stream_Record ==
    /\ Reading
    /\ stream_data
    /\ \E s \in NextStreams, r \in Records :
        /\ lines' = Append(lines, RecordMessage(s, r))
        /\ IF s \notin DOMAIN schemas
             THEN record_before_schema /\ UNCHANGED <<errors, rows, state, calls>>
             ELSE IF validate_records /\ ~validate(r, schemas[s])
                    THEN validation_failed /\ UNCHANGED <<errors, rows, state, calls>>
                    ELSE \E outcome \in {EmptyList, RowErrors, "error"} :
                           /\ calls' = Append(calls,
                                  Call("insert_rows_json", s, <<r>>, tables[s].schema, outcome))
                           /\ IF outcome = "error"
                                THEN Raise("WarehouseError") /\ UNCHANGED <<errors, rows, state>>
                                ELSE stream_inserted(s, outcome)
    /\ UNCHANGED <<config, schemas, tables, keys, idx, stdout>>

stream_Schema ==
    /\ Reading
    /\ stream_data
    /\ \E s \in NextStreams, d \in SchemaDocs :
        /\ lines' = Append(lines, SchemaMessage(s, d))
        /\ schemas' = SetKey(schemas, s, d)
        /\ IF ~Translatable(d)
             THEN Raise("KeyError") /\ UNCHANGED <<tables, rows, errors, keys, calls>>
             ELSE \E outcome \in {"ok", "Conflict", "error"} :
                    /\ rows' = SetKey(rows, s, 0)
                    /\ errors' = SetKey(errors, s, None)
                    /\ keys' = IF s \in DOMAIN errors THEN keys ELSE Append(keys, s)
                    /\ calls' = Append(calls,
                           Call("create_table", s, <<>>, columns(d), outcome))
                    /\ tables' = SetKey(tables, s,
                           Table(s, d, IF outcome = "ok" THEN "created" ELSE "local"))
                    /\ IF outcome = "error"
                         THEN Raise("WarehouseError")
                         ELSE UNCHANGED <<pc, raised>>
    /\ UNCHANGED <<config, state, idx, stdout>>

\* one iteration of the loop over errors.keys(); logging.error(..., sep=" ")
\* raises TypeError when the stream's last insert returned errors
stream_Report ==
    /\ pc = "end_loop"
    /\ stream_data
    /\ idx <= Len(keys)
    /\ LET table == keys[idx] IN
        IF Falsy(errors[table])
          THEN /\ stdout' = emit_state(stdout, state)
               /\ idx' = idx + 1
               /\ UNCHANGED <<pc, raised>>
          ELSE Raise("TypeError") /\ UNCHANGED <<idx, stdout>>
    /\ UNCHANGED <<config, engine, calls, lines>>

\* the loop over the streams is over: persist_lines_* returns state and main
\* hands it to emit_state
main_emit_state ==
    /\ pc = "end_loop"
    /\ idx > Len(keys)
    /\ stdout' = emit_state(stdout, state)
    /\ pc' = "done"
    /\ UNCHANGED <<config, raised, engine, idx, calls, lines>>

Next ==
    \/ main_job
    \/ stream_create_dataset
    \/ ParseError
    \/ Unrecognized
    \/ ActivateVersion
    \/ State
    \/ job_Record
    \/ job_Schema
    \/ EndOfInput
    \/ job_Load
    \/ stream_Record
    \/ stream_Schema
    \/ stream_Report
    \/ main_emit_state

Spec == Init /\ [][Next]_vars

\* batch mode alone (stream_data false)
NextJob ==
    \/ main_job
    \/ ParseError
    \/ Unrecognized
    \/ ActivateVersion
    \/ State
    \/ job_Record
    \/ job_Schema
    \/ EndOfInput
    \/ job_Load
    \/ main_emit_state

InitJob == Init /\ ~stream_data

SpecJob == InitJob /\ [][NextJob]_vars

\* streaming mode alone (stream_data true)
NextStream ==
    \/ stream_create_dataset
    \/ ParseError
    \/ Unrecognized
    \/ ActivateVersion
    \/ State
    \/ stream_Record
    \/ stream_Schema
    \/ EndOfInput
    \/ stream_Report
    \/ main_emit_state

InitStream == Init /\ stream_data

SpecStream == InitStream /\ [][NextStream]_vars

(***************************************************************************)
(* The translation of one property fragment on its own: define_schema is   *)
(* applied to every fragment of a bounded family.                          *)
(***************************************************************************)
\* the longest "type" list, the longest "anyOf" list, the most properties
MaxTypes == 2

MaxAlts == 2

MaxProps == 2

SeqsUpTo(S, n) == UNION {[1..k -> S] : k \in 0..n}

ListNames == {"null", "string", "integer"}

TypeLists == {TypeList(ts) : ts \in SeqsUpTo(ListNames, MaxTypes)}

ScalarTypes == {Scalar(n) : n \in {"null", "string", "integer", "number", "boolean"}}

Alternatives ==
    {WithType(Scalar("null")), WithType(Scalar("string")), WithType(Scalar("integer")),
     WithType(TypeList(<<"string">>)), WithType(TypeList(<<"null", "integer">>)),
     WithFormat(WithType(Scalar("string")), "date-time")}

Leaves ==
    {EmptyFragment, WithFormat(EmptyFragment, "date-time")}
      \cup {WithType(ty) : ty \in ScalarTypes \cup TypeLists}
      \cup {WithFormat(WithType(ty), "date-time") :
               ty \in {Scalar("string"), Scalar("integer"), TypeList(<<"null", "string">>)}}
      \cup {WithAnyOf(alts) : alts \in SeqsUpTo(Alternatives, MaxAlts)}

PropertyName(n) == <<"a", "b", "c", "d">>[n]

Members ==
    {EmptyFragment, WithType(Scalar("string")), WithType(Scalar("number")),
     WithType(TypeList(<<"integer", "null">>)), WithFormat(EmptyFragment, "date-time"),
     WithProperties(WithType(Scalar("object")), << <<"x", WithType(Scalar("boolean"))>> >>)}

PropertyLists ==
    {[n \in 1..Len(ms) |-> <<PropertyName(n), ms[n]>>] : ms \in SeqsUpTo(Members, MaxProps)}

Objects ==
    {WithType(Scalar("object")), WithType(TypeList(<<"null", "object">>))}
      \cup {WithProperties(WithType(ty), ps) :
               ty \in {Scalar("object"), TypeList(<<"null", "object">>)}, ps \in PropertyLists}

ItemFragments ==
    {EmptyFragment, WithType(Scalar("string")), WithType(Scalar("number")),
     WithType(Scalar("array")), WithType(TypeList(<<"null", "string">>)),
     WithType(TypeList(<<"null", "object">>))}
      \cup {f \in Objects : ~f.type.list}

Arrays ==
    {WithType(Scalar("array")), WithType(TypeList(<<"null", "array">>))}
      \cup {WithItems(WithType(ty), item) :
               ty \in {Scalar("array"), TypeList(<<"null", "array">>)}, item \in ItemFragments}
      \cup {WithFormat(WithItems(WithType(Scalar("array")), WithType(Scalar("string"))),
                       "date-time")}

Fragments == Leaves \cup Objects \cup Arrays

InitSchema ==
    /\ stream_data = FALSE
    /\ validate_records = TRUE
    /\ autodetect_schema = FALSE
    /\ pc = "define_schema"
    /\ raised = None
    /\ state = None
    /\ schemas = EmptyDict
    /\ rows = EmptyDict
    /\ tables = EmptyDict
    /\ errors = EmptyDict
    /\ keys = <<>>
    /\ idx = 0
    /\ stdout = <<>>
    /\ calls = <<>>
    /\ lines = <<>>
    /\ fragment \in Fragments
    /\ translated = NotTranslated

\* define_schema(fragment, "f") returns or raises
Translate ==
    /\ pc = "define_schema"
    /\ translated' = define_schema(fragment, "f")
    /\ pc' = "returned"
    /\ UNCHANGED <<stream_data, validate_records, autodetect_schema, raised, engine, idx,
                   stdout, calls, lines, fragment>>

NextSchema == Translate

SpecSchema == InitSchema /\ [][NextSchema]_vars

(***************************************************************************)
(* What the run has seen, read off the input lines and the warehouse calls *)
(***************************************************************************)

\* the run stopped inside the message loop: its last line is the one that raised
AbortedInLoop == pc = "aborted" /\ idx = 0 /\ lines # <<>>

\* the lines that were handled without raising
Processed == IF AbortedInLoop THEN SubSeq(lines, 1, Len(lines) - 1) ELSE lines

IsRecord(n) == lines[n].type = "RECORD"

IsState(n) == lines[n].type = "STATE"

IsSchema(n) == lines[n].type = "SCHEMA"

Positions(seq, Test(_)) == {n \in 1..Len(seq) : Test(seq[n])}

Last(S) == IF S = {} THEN 0 ELSE CHOOSE n \in S : \A m \in S : m <= n

\* positions of the accepted RECORD lines and of the STATE lines
AcceptedRecords == {n \in 1..Len(Processed) : IsRecord(n)}

StateLines == {n \in 1..Len(Processed) : IsState(n)}

LastStateLine == Last(StateLines)

\* the accepted records of stream s, serialised, in arrival order
AcceptedOf(s) ==
    LET picked == SelectSeq(Processed, LAMBDA m : m.type = "RECORD" /\ m.stream = s)
    IN  [n \in 1..Len(picked) |-> json_dumps(picked[n].record)]

SchemaLinesOf(s) == {n \in 1..Len(lines) : IsSchema(n) /\ lines[n].stream = s}

CallsOf(op, s) == {j \in 1..Len(calls) : calls[j].op = op /\ calls[j].stream = s}

LoadCalls == {j \in 1..Len(calls) : calls[j].op = "load"}

InsertCalls == SelectSeq(calls, LAMBDA c : c.op = "insert_rows_json")

\* the insert call made for the RECORD line n (the calls are in line order)
InsertNo(n) == Cardinality({m \in 1..n : IsRecord(m)})

\* how often record line n's payload occurs in the successful load jobs of its stream
LoadedCopies(s, r) ==
    Cardinality({p \in LoadCalls \X (1..Len(lines)) :
                    /\ calls[p[1]].stream = s
                    /\ calls[p[1]].outcome = "DONE"
                    /\ p[2] <= Len(calls[p[1]].data)
                    /\ calls[p[1]].data[p[2]] = json_dumps(r)})

AcceptedCopiesBefore(s, r, k) ==
    Cardinality({n \in AcceptedRecords : n < k /\ lines[n].stream = s /\ lines[n].record = r})

(***************************************************************************)
(* C1: batch mode: whenever a checkpoint is on the output, every RECORD    *)
(* accepted before its STATE message is in a load job that succeeded       *)
(* (also when a stream has several SCHEMA messages).                       *)
(***************************************************************************)
C1_CheckpointCoversRecords ==
    (~stream_data /\ stdout # <<>>) =>
        \A s \in Streams, r \in Records :
            AcceptedCopiesBefore(s, r, LastStateLine) <= LoadedCopies(s, r)

(***************************************************************************)
(* C2: streaming mode: no checkpoint is on the output if an insert issued  *)
(* before its STATE message returned a non-empty error list.               *)
(***************************************************************************)
C2_NoCheckpointAfterFailedInsert ==
    (stream_data /\ stdout # <<>>) =>
        \A n \in AcceptedRecords :
            (n < LastStateLine /\ InsertNo(n) <= Len(InsertCalls))
                => InsertCalls[InsertNo(n)].outcome # RowErrors

(***************************************************************************)
(* C3: batch mode, one SCHEMA message per stream, the run ends normally:   *)
(* no load job is submitted before the input is exhausted; afterwards each *)
(* stream with buffered records has exactly one load job, whose content is *)
(* that stream's accepted records in arrival order, and a stream without   *)
(* records has none.                                                       *)
(***************************************************************************)
OneSchemaEach == \A s \in Streams : Cardinality(SchemaLinesOf(s)) <= 1

C3_OneLoadPerStream ==
    ~stream_data =>
        /\ idx = 0 => calls = <<>>
        /\ OneSchemaEach =>
             \A s \in Streams :
                /\ Cardinality(CallsOf("load", s)) <= 1
                /\ \A j \in CallsOf("load", s) :
                      calls[j].data # <<>> /\ calls[j].data = AcceptedOf(s)
                /\ (pc = "done" /\ AcceptedOf(s) # <<>>)
                      => Cardinality(CallsOf("load", s)) = 1

\* a finished run that loaded two different records of one stream
C3_Witness ==
    /\ ~stream_data
    /\ pc = "done"
    /\ OneSchemaEach
    /\ \E j \in LoadCalls : Len(calls[j].data) = 2 /\ calls[j].data[1] # calls[j].data[2]

(***************************************************************************)
(* C4 as claimed: batch mode, the input holds a STATE message and the run  *)
(* ends normally with every load job done: exactly one checkpoint is       *)
(* written and it is the last STATE value.                                 *)
(***************************************************************************)
LastStateValue == lines[LastStateLine].value

C4_ExactlyOneCheckpoint ==
    (~stream_data /\ pc = "done" /\ StateLines # {}) =>
        stdout = <<json_dumps(LastStateValue)>>

(***************************************************************************)
(* C4 amended: batch mode: a finished run has written one checkpoint, the  *)
(* last STATE value, when no RECORD was accepted after the last STATE      *)
(* message and that value is not null, and none otherwise; a checkpoint is *)
(* written only after every load job is done, and none is written when a   *)
(* load job failed.                                                        *)
(***************************************************************************)
RecordLines == {n \in 1..Len(Processed) : IsRecord(n)}

StateIsLast ==
    StateLines # {} /\ Last(RecordLines) < LastStateLine /\ LastStateValue # None

C4_CheckpointIffStateLast ==
    ~stream_data =>
        /\ pc = "done" =>
              stdout = IF StateIsLast THEN <<json_dumps(LastStateValue)>> ELSE <<>>
        /\ stdout # <<>> =>
              /\ pc = "done"
              /\ \A j \in LoadCalls : calls[j].outcome = "DONE"
              /\ \A s \in DOMAIN rows : rows[s] # <<>> => CallsOf("load", s) # {}
        /\ (\E j \in LoadCalls : calls[j].outcome = "failed") => stdout = <<>>

\* two STATE messages after a loaded record: the second value is the checkpoint
C4_Witness ==
    /\ ~stream_data
    /\ pc = "done"
    /\ Cardinality(StateLines) = 2
    /\ \E n \in StateLines : lines[n].value # LastStateValue
    /\ stdout = <<json_dumps(LastStateValue)>>
    /\ \E j \in LoadCalls : calls[j].outcome = "DONE"

(***************************************************************************)
(* C5 as claimed: both modes: when a RECORD without a prior SCHEMA aborts  *)
(* the run, no warehouse call has been made in the run.                    *)
(***************************************************************************)
C5_NoWarehouseIOBeforeAbort == raised = "record before schema" => calls = <<>>

(***************************************************************************)
(* C5 amended: both modes: a RECORD for a stream with no prior SCHEMA      *)
(* aborts the run and makes no warehouse call itself; in batch mode no     *)
(* warehouse call at all has been made by then, in streaming mode exactly  *)
(* the dataset creation and the one call of each earlier SCHEMA and RECORD *)
(* message.                                                                *)
(***************************************************************************)
NoPriorSchema(n) == \A m \in SchemaLinesOf(lines[n].stream) : m > n

C5_AbortsWithoutOwnIO ==
    /\ \A n \in 1..Len(lines) :
          (IsRecord(n) /\ NoPriorSchema(n)) =>
              /\ n = Len(lines)
              /\ pc = "aborted"
              /\ raised = "record before schema"
    /\ raised = "record before schema" =>
          IF stream_data
            THEN Len(calls) =
                   1 + Cardinality({m \in 1..(Len(lines) - 1) : IsRecord(m) \/ IsSchema(m)})
            ELSE calls = <<>>

\* streaming: the abort comes after a table creation and an insert of another stream
C5_Witness ==
    /\ raised = "record before schema"
    /\ stream_data
    /\ \E j \in 1..Len(calls) : calls[j].op = "insert_rows_json"

(***************************************************************************)
(* C6: both modes: a run aborted by an unparseable line, a RECORD before   *)
(* its SCHEMA, an unrecognized message or a record failing validation has  *)
(* written no checkpoint, and writes none later (nothing can follow).      *)
(***************************************************************************)
FatalErrors ==
    {"JSONDecodeError", "record before schema", "Unrecognized message", "ValidationError"}

C6_NoCheckpointOnFatalError ==
    raised \in FatalErrors => (pc = "aborted" /\ stdout = <<>> /\ ~ENABLED Next)

\* a record fails validation while a checkpoint is pending
C6_Witness ==
    /\ raised = "ValidationError"
    /\ StateLines # {}
    /\ state \in {"v1", "v2"}

(***************************************************************************)
(* C7: a stream with a SCHEMA message and no RECORD message has no load    *)
(* job and no row insert; in streaming mode a table creation is issued for *)
(* each of its SCHEMA messages, in batch mode none.                        *)
(***************************************************************************)
RecordLinesOf(s) == {n \in 1..Len(lines) : IsRecord(n) /\ lines[n].stream = s}

C7_SchemaOnlyStream ==
    \A s \in Streams :
        (SchemaLinesOf(s) # {} /\ RecordLinesOf(s) = {}) =>
            /\ CallsOf("load", s) = {}
            /\ CallsOf("insert_rows_json", s) = {}
            /\ IF stream_data
                 THEN /\ Cardinality(CallsOf("create_table", s)) =
                           Cardinality({n \in SchemaLinesOf(s) : Translatable(lines[n].schema)})
                      /\ (\E n \in SchemaLinesOf(s) : n <= Len(Processed))
                            => CallsOf("create_table", s) # {}
                 ELSE CallsOf("create_table", s) = {}

\* a finished batch run that loaded one stream and had nothing to load for the other
C7_Witness ==
    /\ ~stream_data
    /\ pc = "done"
    /\ \E s \in Streams : SchemaLinesOf(s) # {} /\ RecordLinesOf(s) = {}
    /\ \E j \in LoadCalls : calls[j].outcome = "DONE"

(***************************************************************************)
(* C8: both modes: the pending checkpoint is the value of the last STATE   *)
(* message when no RECORD was accepted after it, and absent otherwise.     *)
(***************************************************************************)
C8_PendingCheckpoint ==
    LET rs == {n \in 1..Len(Processed) : IsRecord(n) \/ IsState(n)}
    IN  state = IF rs # {} /\ IsState(Last(rs)) THEN lines[Last(rs)].value ELSE None

\* streaming: STATE, an inserted RECORD, then a second STATE
C8_Witness ==
    /\ stream_data
    /\ state \in {"v1", "v2"}
    /\ Cardinality(StateLines) = 2
    /\ \E n \in RecordLines : \E k \in StateLines : k < n /\ n < LastStateLine

(***************************************************************************)
(* C9: batch mode: when a load job fails, every other stream with a        *)
(* non-empty spool still gets its load job before the run fails.           *)
(***************************************************************************)
C9_OtherLoadsStillRun ==
    (~stream_data /\ raised = "load job failed") =>
        \A s \in DOMAIN rows : rows[s] # <<>> => CallsOf("load", s) # {}

(***************************************************************************)
(* C10: streaming mode: a stream whose insert returned errors stays marked *)
(* failed for the rest of the run.                                         *)
(***************************************************************************)
C10_FailedStaysFailed ==
    stream_data =>
        \A j \in 1..Len(calls) :
            (calls[j].op = "insert_rows_json" /\ calls[j].outcome = RowErrors)
                => errors[calls[j].stream] = RowErrors

(***************************************************************************)
(* C11: validate_records enabled, both modes: the step that reads a RECORD *)
(* failing validation against its stream's schema aborts the run and       *)
(* leaves the spools or row counters, the error map, the pending           *)
(* checkpoint, the warehouse and the output as they were; no step follows  *)
(* it.                                                                     *)
(***************************************************************************)
ReadsInvalidRecord(s, r) ==
    /\ pc = "read"
    /\ lines' = Append(lines, RecordMessage(s, r))
    /\ s \in DOMAIN schemas
    /\ validate_records
    /\ ~validate(r, schemas[s])

C11_InvalidRecordAborts ==
    [][/\ raised # "ValidationError"
       /\ \A s \in Streams, r \in Records :
            ReadsInvalidRecord(s, r) =>
                /\ pc' = "aborted"
                /\ raised' = "ValidationError"
                /\ rows' = rows
                /\ errors' = errors
                /\ state' = state
                /\ calls' = calls
                /\ stdout' = stdout]_vars

\* batch: the invalid record arrives when the stream's spool already holds a record
C11_Witness ==
    /\ raised = "ValidationError"
    /\ ~stream_data
    /\ \E s \in DOMAIN rows : rows[s] # <<>>

(***************************************************************************)
(* The translation of property fragments.                                  *)
(***************************************************************************)
Returned == pc = "returned" /\ translated.error = None

Elements(ts) == {ts[n] : n \in 1..Len(ts)}

ListTyped(f) == Has(f, "type") /\ f.type.list /\ f.type.of # <<>>

LastOf(f) == f.type.of[Len(f.type.of)]

\* what a type name is mapped to
MappingOf(f, type_name) ==
    IF type_name = "object" THEN Scalar("RECORD") ELSE scalar_type(f, Scalar(type_name))

(***************************************************************************)
(* C12: for every fragment whose type is a list (here: one that does not   *)
(* end in "array", whose mode is REPEATED), define_schema returns the      *)
(* mapping of the list's last element as the type, and the mode NULLABLE   *)
(* if "null" is anywhere in the list and REQUIRED, in either case of the   *)
(* letters, otherwise.                                                     *)
(***************************************************************************)
C12_ListTypeAndMode ==
    (Returned /\ ListTyped(fragment) /\ LastOf(fragment) # "array") =>
        /\ translated.type = MappingOf(fragment, LastOf(fragment))
        /\ translated.mode = IF "null" \in Elements(fragment.type.of)
                               THEN "NULLABLE"
                               ELSE IF translated.mode = "required" THEN "required"
                                                                   ELSE "REQUIRED"

(***************************************************************************)
(* C13: for every fragment without a direct type that declares anyOf with  *)
(* an alternative whose type is not "null", define_schema returns the      *)
(* column of the first such alternative, and the column is NULLABLE if     *)
(* there is a "null" alternative.                                          *)
(***************************************************************************)
NonNull(alts) == {n \in 1..Len(alts) : ~Is(alts[n].type, "null")}

FirstNonNull(alts) == alts[CHOOSE n \in NonNull(alts) : \A m \in NonNull(alts) : n <= m]

DeclaresAnyOf(f) == ~Has(f, "type") /\ Has(f, "anyOf") /\ NonNull(f.anyOf) # {}

C13_FirstNonNullAlternative ==
    (Returned /\ DeclaresAnyOf(fragment)) =>
        LET first == define_schema(FirstNonNull(fragment.anyOf), "f") IN
        /\ translated.type = first.type
        /\ translated.fields = first.fields
        /\ translated.mode = IF NonNull(fragment.anyOf) # 1..Len(fragment.anyOf)
                               THEN "NULLABLE"
                               ELSE first.mode

(***************************************************************************)
(* C14: for every fragment of type array whose items.type is "object",     *)
(* define_schema returns a REPEATED RECORD whose nested fields are the     *)
(* columns of the non-empty properties of the items object, in the order   *)
(* of the mapping; the empty property fragments are skipped.  It raises    *)
(* when the items object has no properties or a property cannot be         *)
(* translated.                                                             *)
(***************************************************************************)
ArrayOfObjects(f) ==
    /\ Has(f, "type")
    /\ IF f.type.list THEN f.type.of # <<>> /\ LastOf(f) = "array" ELSE Is(f.type, "array")
    /\ Has(f, "items")
    /\ Has(f.items[1], "type")
    /\ Is(f.items[1].type, "object")

NonEmptyProperties(f) == SelectSeq(f.properties, LAMBDA p : p[2].keys # {})

ColumnsOf(ps) == [n \in 1..Len(ps) |-> define_schema(ps[n][2], ps[n][1])]

C14_RepeatedRecord ==
    (pc = "returned" /\ ArrayOfObjects(fragment)) =>
        LET items == fragment.items[1] IN
        IF ~Has(items, "properties")
          THEN translated.error # None
          ELSE LET nested == ColumnsOf(NonEmptyProperties(items)) IN
               IF \E n \in 1..Len(nested) : nested[n].error # None
                 THEN translated.error # None
                 ELSE translated = Column("f", Scalar("RECORD"), "REPEATED", nested)

\* an items object with an empty property and a translated one
C14_Witness ==
    /\ Returned
    /\ ArrayOfObjects(fragment)
    /\ Has(fragment.items[1], "properties")
    /\ \E n \in 1..Len(fragment.items[1].properties) :
           fragment.items[1].properties[n][2] = EmptyFragment
    /\ Len(translated.fields) = 1
    /\ translated.mode = "REPEATED"

(***************************************************************************)
(* C15: batch: a SCHEMA message for a stream that already has buffered     *)
(* records leaves those records in the stream's spool.                     *)
(***************************************************************************)
ReadsSchemaAgain(s, d) ==
    /\ pc = "read"
    /\ ~stream_data
    /\ lines' = Append(lines, SchemaMessage(s, d))
    /\ s \in DOMAIN rows
    /\ rows[s] # <<>>

C15_SchemaKeepsBufferedRecords ==
    [][\A s \in Streams, d \in SchemaDocs :
          ReadsSchemaAgain(s, d) => rows'[s] = rows[s] /\ schemas'[s] = d]_vars

(***************************************************************************)
(* C16: in both modes the step that reads a STATE message sets the pending *)
(* checkpoint to the message's value and changes nothing else: no          *)
(* warehouse call, no output, the same schemas, spools or row counters,    *)
(* tables and error map, and the run goes on reading.                      *)
(***************************************************************************)
C16_StateOnlySetsPending ==
    [][\A v \in StateValues :
          (pc = "read" /\ lines' = Append(lines, StateMessage(v))) =>
              /\ state' = v
              /\ calls' = calls
              /\ stdout' = stdout
              /\ schemas' = schemas
              /\ rows' = rows
              /\ tables' = tables
              /\ errors' = errors
              /\ keys' = keys
              /\ pc' = "read"
              /\ raised' = raised]_vars

\* streaming: a STATE message has replaced the checkpoint v1 by v2 after an insert
C16_Witness ==
    /\ stream_data
    /\ pc = "read"
    /\ Len(lines) >= 2
    /\ lines[Len(lines)] = StateMessage("v2")
    /\ lines[Len(lines) - 1] = StateMessage("v1")
    /\ state = "v2"
    /\ Len(InsertCalls) > 0

(***************************************************************************)
(* C17: in both modes the step that reads an ACTIVATE_VERSION message      *)
(* leaves the schemas, buffers, tables, error map and pending checkpoint   *)
(* as they were and makes no warehouse call and no output; the step that   *)
(* reads a message of no known class aborts the run, without a warehouse   *)
(* call or output.                                                         *)
(***************************************************************************)
C17_ActivateVersionIgnored ==
    [][/\ (pc = "read" /\ lines' = Append(lines, ActivateVersionMessage)) =>
              /\ state' = state
              /\ schemas' = schemas
              /\ rows' = rows
              /\ tables' = tables
              /\ errors' = errors
              /\ keys' = keys
              /\ calls' = calls
              /\ stdout' = stdout
              /\ pc' = "read"
              /\ raised' = raised
       /\ (pc = "read" /\ lines' = Append(lines, UnrecognizedMessage)) =>
              /\ pc' = "aborted"
              /\ raised' = "Unrecognized message"
              /\ calls' = calls
              /\ stdout' = stdout]_vars

\* an ACTIVATE_VERSION read while a checkpoint is pending, then an unknown message
C17_Witness ==
    /\ Len(lines) >= 3
    /\ lines[Len(lines) - 1] = ActivateVersionMessage
    /\ lines[Len(lines)] = UnrecognizedMessage
    /\ raised = "Unrecognized message"
    /\ state # None
    /\ schemas # EmptyDict

(***************************************************************************)
(* C18: streaming mode: a Conflict from create_dataset, or from            *)
(* create_table on a SCHEMA message, does not abort the run; after the     *)
(* SCHEMA step the stream has the message's schema, a table with the       *)
(* stream's name and the translated columns, row count 0 and no error, as  *)
(* after a successful create; and an accepted RECORD for a stream whose    *)
(* table creation met a conflict is inserted into that table.              *)
(***************************************************************************)
LastCall(cs) == cs[Len(cs)]

Answered(op, outcome) ==
    /\ Len(calls') = Len(calls) + 1
    /\ LastCall(calls').op = op
    /\ LastCall(calls').outcome = outcome

ReadsAcceptedRecord(s, r) ==
    /\ pc = "read"
    /\ stream_data
    /\ lines' = Append(lines, RecordMessage(s, r))
    /\ s \in DOMAIN schemas
    /\ validate_records => validate(r, schemas[s])

C18_ConflictIsSuccess ==
    [][/\ Answered("create_dataset", "Conflict") =>
              /\ pc' = "read"
              /\ raised' = None
              /\ UNCHANGED engine
       /\ \A s \in Streams, d \in SchemaDocs :
            (lines' = Append(lines, SchemaMessage(s, d)) /\ Answered("create_table", "Conflict")) =>
              /\ pc' = "read"
              /\ raised' = None
              /\ schemas'[s] = d
              /\ [tables'[s] EXCEPT !.origin = "created"] = Table(s, d, "created")
              /\ rows'[s] = 0
              /\ errors'[s] = None
              /\ state' = state
       /\ \A s \in Streams, r \in Records :
            (ReadsAcceptedRecord(s, r) /\ tables[s].origin = "local") =>
              /\ Len(calls') = Len(calls) + 1
              /\ LastCall(calls').op = "insert_rows_json"
              /\ LastCall(calls').stream = s
              /\ LastCall(calls').data = <<r>>
              /\ LastCall(calls').schema = columns(schemas[s])]_vars

\* both creations met a conflict and a record of the stream was inserted since
C18_Witness ==
    /\ stream_data
    /\ Len(calls) >= 3
    /\ calls[1].op = "create_dataset" /\ calls[1].outcome = "Conflict"
    /\ calls[2].op = "create_table" /\ calls[2].outcome = "Conflict"
    /\ calls[3].op = "insert_rows_json" /\ calls[3].stream = calls[2].stream
    /\ calls[3].outcome = EmptyList
    /\ pc = "read"

(***************************************************************************)
(* C19: streaming mode: the insert calls are, in order, one call for each  *)
(* accepted RECORD message of the input, each carrying that one record to  *)
(* the table of its stream; the step of an accepted RECORD makes its call  *)
(* whatever the error map holds, and an insert that returns row errors     *)
(* leaves the run reading.                                                 *)
(***************************************************************************)
RecordsRead == SelectSeq(lines, LAMBDA m : m.type = "RECORD")

Rejected == raised \in {"record before schema", "ValidationError"}

AcceptedRecordMessages ==
    IF Rejected THEN SubSeq(RecordsRead, 1, Len(RecordsRead) - 1) ELSE RecordsRead

InsertsFollowInput ==
    /\ Len(InsertCalls) = Len(AcceptedRecordMessages)
    /\ \A n \in 1..Len(InsertCalls) :
         /\ InsertCalls[n].stream = AcceptedRecordMessages[n].stream
         /\ InsertCalls[n].data = <<AcceptedRecordMessages[n].record>>

C19_OneInsertPerRecord ==
    /\ [](stream_data => InsertsFollowInput)
    /\ [][\A s \in Streams, r \in Records :
            ReadsAcceptedRecord(s, r) =>
              \E outcome \in {EmptyList, RowErrors, "error"} :
                /\ calls' = Append(calls,
                       Call("insert_rows_json", s, <<r>>, tables[s].schema, outcome))
                /\ outcome = RowErrors => pc' = "read" /\ raised' = None]_vars

\* an insert for s1 returned row errors and a later record of s2 was inserted
C19_Witness ==
    /\ stream_data
    /\ Len(InsertCalls) >= 2
    /\ InsertCalls[1].stream = "s1" /\ InsertCalls[1].outcome = RowErrors
    /\ InsertCalls[2].stream = "s2" /\ InsertCalls[2].outcome = EmptyList
    /\ errors["s1"] = RowErrors
    /\ pc = "read"

(***************************************************************************)
(* C20: in any run the end-of-run loop of persist_lines_stream and main's  *)
(* emit_state together write at most one checkpoint line.                  *)
(***************************************************************************)
C20_AtMostOneCheckpointLine == Len(stdout) <= 1

====
